---- MODULE Spec2Model ----
(***************************************************************************)
(* Model of the reification phase of the template pipeline                 *)
(* (packages/compiler/src/template/pipeline/src/phases/reify.ts).          *)
(*                                                                         *)
(* A compilation job owns units; every unit owns a create list and an      *)
(* update list of operations.  phaseReify walks every unit, every list and *)
(* every operation in order, rewrites the operation's expressions with     *)
(* reifyIrExpression and replaces the operation by a Statement operation   *)
(* that wraps an instruction call.  A thrown Error ends the pass.          *)
(*                                                                         *)
(* Values of the model                                                     *)
(*   expression  a record with a "kind" field; the kinds of IrKinds are    *)
(*               ir.Expression kinds, "Interpolation" is the carrier       *)
(*               ir.Interpolation, every other kind is an expression of    *)
(*               the output AST                                            *)
(*   operation   a record with a "kind" field named after ir.OpKind       *)
(*   result      [ok |-> BOOLEAN, ...]: ok = FALSE stands for a thrown     *)
(*               Error                                                     *)
(* Source spans and the constant-pool indices of attributes and local      *)
(* refs are payload the phase copies without looking at it; the model      *)
(* leaves them out of the records.                                         *)
(***************************************************************************)
EXTENDS Integers, Sequences, FiniteSets, TLC

VARIABLES units, orig, u, phase, i, status, error

vars == <<units, orig, u, phase, i, status, error>>

(***************************************************************************)
(* Bounds of the explored inputs.                                          *)
(***************************************************************************)
\* longest create or update list of a unit
MaxLen == 2
\* most sub-expressions of an interpolation carrier
MaxK == 2
\* longest handler list of a listener
MaxHandlerLen == 2

(***************************************************************************)
(* Expressions.                                                            *)
(***************************************************************************)
\* `null` where the source has a string | null
NullName == "<null>"

\* `null` where the source has an expression | null
NullExpr == [kind |-> "null"]

\* the kinds of ir.Expression that reifyIrExpression has a case for
SupportedIrKinds ==
    {"NextContext", "Reference", "LexicalRead", "RestoreView", "ResetView",
     "GetCurrentView", "ReadVariable", "ReadTemporaryExpr",
     "AssignTemporaryExpr", "PureFunctionExpr", "PureFunctionParameterExpr",
     "PipeBinding", "PipeBindingVariadic"}

\* ir.Expression kinds that reach the default case of reifyIrExpression
OtherIrKinds == {"Context", "SafePropertyRead", "EmptyExpr"}

IrKinds == SupportedIrKinds \cup OtherIrKinds

\* ir.isIrExpression: the carrier ir.Interpolation is not an ir.Expression
isIrExpression(expr) == expr.kind \in IrKinds

\* o.literal of a number, o.literal of a string, o.variable, x.set(v)
LiteralNum(n) == [kind |-> "LiteralExpr", num |-> n]

LiteralStr(s) == [kind |-> "LiteralExpr", str |-> s]

ReadVarExpr(name) == [kind |-> "ReadVarExpr", name |-> name]

WriteVarExpr(name, value) == [kind |-> "WriteVarExpr", name |-> name, value |-> value]

\* an instruction call expression built by the ng builders: o.importExpr(instr).callFn(args)
InstructionCall(instruction, args) ==
    [kind |-> "InvokeFunctionExpr", instruction |-> instruction, args |-> args]

Ok(val) == [ok |-> TRUE, val |-> val]

Throw(message) == [ok |-> FALSE, message |-> message]

\* Faulty variant: the default case lets the unknown expression through.
UnsupportedExpressionKept(expr) == Ok(expr)

\* the default case of reifyIrExpression
UnsupportedExpression(expr) == Throw("Unsupported reification of ir.Expression kind")

\* reifyIrExpression: one node, its children already rewritten
reifyIrExpression(expr) ==
    IF ~isIrExpression(expr) THEN Ok(expr)
    ELSE CASE expr.kind = "NextContext" -> Ok(InstructionCall("nextContext", <<LiteralNum(expr.steps)>>))
           [] expr.kind = "Reference" -> Ok(InstructionCall("reference", <<LiteralNum(expr.slot + 1 + expr.offset)>>))
           [] expr.kind = "LexicalRead" -> Throw("unresolved LexicalRead")
           [] expr.kind = "RestoreView" ->
                IF expr.view.kind = "number" THEN Throw("unresolved RestoreView")
                ELSE Ok(InstructionCall("restoreView", <<expr.view>>))
           [] expr.kind = "ResetView" -> Ok(InstructionCall("resetView", <<expr.expr>>))
           [] expr.kind = "GetCurrentView" -> Ok(InstructionCall("getCurrentView", <<>>))
           [] expr.kind = "ReadVariable" ->
                IF expr.name = NullName THEN Throw("Read of unnamed variable")
                ELSE Ok(ReadVarExpr(expr.name))
           [] expr.kind = "ReadTemporaryExpr" ->
                IF expr.name = NullName THEN Throw("Read of unnamed temporary")
                ELSE Ok(ReadVarExpr(expr.name))
           [] expr.kind = "AssignTemporaryExpr" ->
                IF expr.name = NullName THEN Throw("Assign of unnamed temporary")
                ELSE Ok(WriteVarExpr(expr.name, expr.expr))
           [] expr.kind = "PureFunctionExpr" ->
                IF expr.fn = NullExpr THEN Throw("expected PureFunctions to have been extracted")
                ELSE Ok(InstructionCall("pureFunction", <<LiteralNum(expr.varOffset), expr.fn>> \o expr.args))
           [] expr.kind = "PureFunctionParameterExpr" -> Throw("expected PureFunctionParameterExpr to have been extracted")
           [] expr.kind = "PipeBinding" ->
                Ok(InstructionCall("pipeBind", <<LiteralNum(expr.slot), LiteralNum(expr.varOffset)>> \o expr.args))
           [] expr.kind = "PipeBindingVariadic" ->
                Ok(InstructionCall("pipeBindV", <<LiteralNum(expr.slot), LiteralNum(expr.varOffset)>> \o expr.args))
           [] OTHER -> UnsupportedExpression(expr)

(***************************************************************************)
(* The expression walker of ir: transformExpressionsInExpression applies   *)
(* the transform bottom-up, to the children of a node and then to the node *)
(* itself.  A node keeps its children in the fields named here.            *)
(***************************************************************************)
ExprFields == {"expr", "view", "fn", "value", "condition"}

ExprListFields == {"args", "expressions"}

RECURSIVE transformExpressionsInExpression(_)
RECURSIVE transformExpressionList(_)

\* the results of a list joined: the first Error thrown, or the list
ConsResult(head, tail) ==
    IF ~head.ok THEN head
    ELSE IF ~tail.ok THEN tail
    ELSE Ok(<<head.val>> \o tail.val)

\* the node with its children replaced by their results kids[f]
WithChildren(node, kids) ==
    IF \E f \in DOMAIN kids : ~kids[f].ok
    THEN kids[CHOOSE f \in DOMAIN kids : ~kids[f].ok]
    ELSE Ok([f \in DOMAIN node |-> IF f \in DOMAIN kids THEN kids[f].val ELSE node[f]])

\* the transform applied to a node whose children are rewritten
TransformNode(rebuilt) ==
    IF ~rebuilt.ok THEN rebuilt ELSE reifyIrExpression(rebuilt.val)

transformExpressionList(exprs) ==
    IF exprs = <<>> THEN Ok(<<>>)
    ELSE ConsResult(transformExpressionsInExpression(Head(exprs)),
                    transformExpressionList(Tail(exprs)))

transformExpressionsInExpression(expr) ==
    TransformNode(WithChildren(expr,
        [f \in DOMAIN expr \cap (ExprFields \cup ExprListFields) |->
            IF f \in ExprFields THEN transformExpressionsInExpression(expr[f])
            ELSE transformExpressionList(expr[f])]))

\* some expressions, ir and output, nested up to three deep
SubExprs ==
    { LiteralStr("v"),
      [kind |-> "ReadVariable", name |-> "x"],
      [kind |-> "LexicalRead", name |-> "l"] }

ExprPool ==
    SubExprs \cup
    { [kind |-> "NextContext", steps |-> 1],
      [kind |-> "Reference", slot |-> 0, offset |-> 1],
      [kind |-> "RestoreView", view |-> [kind |-> "number", xref |-> 2]],
      [kind |-> "RestoreView", view |-> [kind |-> "ReadVariable", name |-> "view"]],
      [kind |-> "ResetView", expr |-> [kind |-> "ReadVariable", name |-> "x"]],
      [kind |-> "ResetView", expr |-> [kind |-> "Context"]],
      [kind |-> "GetCurrentView"],
      [kind |-> "ReadVariable", name |-> NullName],
      [kind |-> "ReadTemporaryExpr", name |-> "tmp"],
      [kind |-> "ReadTemporaryExpr", name |-> NullName],
      [kind |-> "AssignTemporaryExpr", name |-> "tmp", expr |-> [kind |-> "NextContext", steps |-> 2]],
      [kind |-> "AssignTemporaryExpr", name |-> NullName, expr |-> LiteralStr("v")],
      [kind |-> "PureFunctionExpr", varOffset |-> 3, fn |-> ReadVarExpr("_c0"),
       args |-> <<[kind |-> "ReadVariable", name |-> "x"]>>],
      [kind |-> "PureFunctionExpr", varOffset |-> 3, fn |-> NullExpr, args |-> <<>>],
      [kind |-> "PureFunctionParameterExpr", index |-> 0],
      [kind |-> "PipeBinding", slot |-> 1, varOffset |-> 2,
       args |-> <<[kind |-> "ReadVariable", name |-> "x"], LiteralStr("v")>>],
      [kind |-> "PipeBindingVariadic", slot |-> 1, varOffset |-> 2,
       args |-> <<[kind |-> "PipeBinding", slot |-> 2, varOffset |-> 4,
                   args |-> <<[kind |-> "Reference", slot |-> 1, offset |-> 0]>>]>>],
      [kind |-> "Context"],
      [kind |-> "SafePropertyRead", name |-> "p"],
      [kind |-> "NotExpr", condition |-> [kind |-> "ReadVariable", name |-> "x"]],
      [kind |-> "NotExpr", condition |-> [kind |-> "EmptyExpr"]] }

(***************************************************************************)
(* Statements and the instruction builders.  A statement is a record with  *)
(* a "kind" field too, and keeps its expressions in the fields the walker  *)
(* knows, so the walker serves for statements as well.                     *)
(***************************************************************************)
ExpressionStatement(expr) == [kind |-> "ExpressionStatement", expr |-> expr]

\* new o.DeclareVarStmt(name, value, undefined, o.StmtModifier.Final)
DeclareVarStmt(name, value) ==
    [kind |-> "DeclareVarStmt", name |-> name, value |-> value, modifier |-> "Final"]

\* ir.createStatementOp
createStatementOp(statement) == [kind |-> "Statement", statement |-> statement]

\* an ng builder: a Statement operation that calls the instruction
ng(instruction, args) ==
    createStatementOp(ExpressionStatement(InstructionCall(instruction, args)))

\* an ng builder of an interpolate instruction: it is handed the carrier's
\* string fragments and sub-expressions next to its other arguments
ngInterpolate(instruction, args, strings, expressions) ==
    createStatementOp(ExpressionStatement(
        [kind |-> "InvokeFunctionExpr", instruction |-> instruction, args |-> args,
         strings |-> strings, expressions |-> expressions]))

\* o.fn(params, statements, undefined, undefined, name)
FunctionExpr(params, statements, name) ==
    [kind |-> "FunctionExpr", params |-> params, statements |-> statements, name |-> name]

\* expr instanceof ir.Interpolation
IsInterpolation(expr) == expr.kind = "Interpolation"

(***************************************************************************)
(* ir.transformExpressionsInOp: the walker over every expression an        *)
(* operation holds, the handler operations of a listener included.         *)
(***************************************************************************)
OpExprFields == {"expression", "interpolation", "initializer", "statement"}

RECURSIVE transformExpressionsInOp(_)
RECURSIVE transformExpressionsInOps(_)

transformExpressionsInOps(ops) ==
    IF ops = <<>> THEN Ok(<<>>)
    ELSE ConsResult(transformExpressionsInOp(Head(ops)), transformExpressionsInOps(Tail(ops)))

transformExpressionsInOp(op) ==
    WithChildren(op,
        [f \in DOMAIN op \cap (OpExprFields \cup {"handlerOps"}) |->
            IF f = "handlerOps" THEN transformExpressionsInOps(op[f])
            ELSE transformExpressionsInExpression(op[f])])

(***************************************************************************)
(* Results of lowering one operation: the operation that is in the list    *)
(* afterwards, and whether the lowering returned (ok) or threw.            *)
(***************************************************************************)
Replaced(op) == [ok |-> TRUE, op |-> op]

Thrown(op, message) == [ok |-> FALSE, op |-> op, message |-> message]

(***************************************************************************)
(* reifyUpdateOperations, one operation of the loop.                       *)
(***************************************************************************)
\* Faulty variant: the interpolate call loses the last string fragment.
InterpolationStringsShort(expression) ==
    SubSeq(expression.strings, 1, Len(expression.strings) - 1)

\* the fragments handed to an interpolate instruction: op.expression.strings
InterpolationStrings(expression) == expression.strings

\* Faulty variant: the instanceof test of the Property case is dropped.
PropertyIsInterpolatedNever(op) == FALSE

\* the instanceof test of the Property case
PropertyIsInterpolated(op) == IsInterpolation(op.expression)

\* Faulty variant: the interpolated host property is lowered like the plain one.
HostPropertyInterpolatedLowered(op) ==
    Replaced(ng("hostProperty", <<LiteralStr(op.name), op.expression>>))

\* the interpolated branch of the HostProperty case
HostPropertyInterpolated(op) == Thrown(op, "not yet handled")

\* the default case of the update switch
UnsupportedUpdateOp(op) == Thrown(op, "Unsupported reification of update op")

\* the Variable case, the same in both switches
reifyVariableOp(op) ==
    IF op.variable.name = NullName THEN Thrown(op, "unnamed variable")
    ELSE Replaced(createStatementOp(DeclareVarStmt(op.variable.name, op.initializer)))

\* the switch of reifyUpdateOperations on an operation whose expressions
\* are rewritten
reifyUpdateSwitch(op) ==
    CASE op.kind = "Advance" -> Replaced(ng("advance", <<LiteralNum(op.delta)>>))
      [] op.kind = "Property" ->
           IF PropertyIsInterpolated(op)
           THEN Replaced(ngInterpolate("propertyInterpolate", <<LiteralStr(op.name)>>,
                                       InterpolationStrings(op.expression), op.expression.expressions))
           ELSE Replaced(ng("property", <<LiteralStr(op.name), op.expression>>))
      [] op.kind = "StyleProp" ->
           IF IsInterpolation(op.expression)
           THEN Replaced(ngInterpolate("stylePropInterpolate", <<LiteralStr(op.name), LiteralStr(op.unit)>>,
                                       InterpolationStrings(op.expression), op.expression.expressions))
           ELSE Replaced(ng("styleProp", <<LiteralStr(op.name), op.expression, LiteralStr(op.unit)>>))
      [] op.kind = "ClassProp" -> Replaced(ng("classProp", <<LiteralStr(op.name), op.expression>>))
      [] op.kind = "StyleMap" ->
           IF IsInterpolation(op.expression)
           THEN Replaced(ngInterpolate("styleMapInterpolate", <<>>,
                                       InterpolationStrings(op.expression), op.expression.expressions))
           ELSE Replaced(ng("styleMap", <<op.expression>>))
      [] op.kind = "ClassMap" ->
           IF IsInterpolation(op.expression)
           THEN Replaced(ngInterpolate("classMapInterpolate", <<>>,
                                       InterpolationStrings(op.expression), op.expression.expressions))
           ELSE Replaced(ng("classMap", <<op.expression>>))
      [] op.kind = "InterpolateText" ->
           Replaced(ngInterpolate("textInterpolate", <<>>,
                                  InterpolationStrings(op.interpolation), op.interpolation.expressions))
      [] op.kind = "Attribute" ->
           IF IsInterpolation(op.expression)
           THEN Replaced(ngInterpolate("attributeInterpolate", <<LiteralStr(op.name)>>,
                                       InterpolationStrings(op.expression), op.expression.expressions))
           ELSE Replaced(ng("attribute", <<LiteralStr(op.name), op.expression>>))
      [] op.kind = "HostProperty" ->
           IF IsInterpolation(op.expression)
           THEN HostPropertyInterpolated(op)
           ELSE Replaced(ng("hostProperty", <<LiteralStr(op.name), op.expression>>))
      [] op.kind = "Variable" -> reifyVariableOp(op)
      [] op.kind = "Statement" -> Replaced(op)
      [] OTHER -> UnsupportedUpdateOp(op)

\* one iteration of the loop of reifyUpdateOperations: rewrite the
\* expressions, then switch on the kind
\* the switch, reached when rewriting the expressions has not thrown
reifyUpdateRewritten(op, rewritten) ==
    IF ~rewritten.ok THEN Thrown(op, rewritten.message)
    ELSE reifyUpdateSwitch(rewritten.val)

\* one iteration of the loop of reifyUpdateOperations: rewrite the
\* expressions, then switch on the kind
reifyUpdateOp(op) == reifyUpdateRewritten(op, transformExpressionsInOp(op))

\* the list after its first operation is lowered to `op` and the rest of
\* the loop has left `rest`
PrependOp(op, rest) == [rest EXCEPT !.ops = <<op>> \o rest.ops]

\* reifyUpdateOperations on a whole list, as reifyListenerHandler calls it:
\* the list as it is when the loop ends or throws
RECURSIVE reifyUpdateOperations(_)
RECURSIVE reifyUpdateRest(_, _)

reifyUpdateRest(first, tail) ==
    IF ~first.ok
    THEN [ok |-> FALSE, ops |-> <<first.op>> \o tail, message |-> first.message]
    ELSE PrependOp(first.op, reifyUpdateOperations(tail))

reifyUpdateOperations(ops) ==
    IF ops = <<>> THEN [ok |-> TRUE, ops |-> <<>>]
    ELSE reifyUpdateRest(reifyUpdateOp(Head(ops)), Tail(ops))

(***************************************************************************)
(* reifyListenerHandler.                                                   *)
(***************************************************************************)
RECURSIVE StatementsOf(_)
\* the loop that collects op.statement of every handler operation
StatementsOf(ops) ==
    IF ops = <<>> THEN <<>> ELSE <<Head(ops).statement>> \o StatementsOf(Tail(ops))

\* Faulty variant: the `$event` parameter is always generated.
ListenerParamsAlways(consumesDollarEvent) == <<"$event">>

\* the parameter list of the listener function
ListenerParams(consumesDollarEvent) ==
    IF consumesDollarEvent THEN <<"$event">> ELSE <<>>

\* the result says how the handler list is left (ops) and, when no Error
\* is thrown, the function expression (fn)
ListenerFunction(reified, name, consumesDollarEvent) ==
    IF ~reified.ok THEN reified
    ELSE IF \E k \in 1..Len(reified.ops) : reified.ops[k].kind # "Statement"
    THEN [ok |-> FALSE, ops |-> reified.ops, message |-> "expected reified statements"]
    ELSE [ok |-> TRUE, ops |-> reified.ops,
          fn |-> FunctionExpr(ListenerParams(consumesDollarEvent),
                              StatementsOf(reified.ops), name)]

reifyListenerHandler(unit, name, handlerOps, consumesDollarEvent) ==
    ListenerFunction(reifyUpdateOperations(handlerOps), name, consumesDollarEvent)

(***************************************************************************)
(* reifyCreateOperations, one operation of the loop.  A job is the         *)
(* sequence of its units; job.views.get(xref) finds the view of an xref.   *)
(***************************************************************************)
JobViewsGet(job, xref) == job[CHOOSE k \in 1..Len(job) : job[k].xref = xref]

\* Faulty variant: the template reads the enclosing unit.
TemplateChildViewEnclosing(job, unit, op) == unit

\* const childView = unit.job.views.get(op.xref)!
TemplateChildView(job, unit, op) == JobViewsGet(job, op.xref)

\* Faulty variant: the default case drops through and leaves the operation.
UnsupportedCreateOpLeft(op) == Replaced(op)

\* the default case of the create switch
UnsupportedCreateOp(op) == Thrown(op, "Unsupported reification of create op")

\* Faulty variant: the operation is replaced before the name is checked.
reifyVariableCreateOpLate(op) ==
    IF op.variable.name = NullName
    THEN Thrown(createStatementOp(DeclareVarStmt(op.variable.name, op.initializer)), "unnamed variable")
    ELSE Replaced(createStatementOp(DeclareVarStmt(op.variable.name, op.initializer)))

\* the Variable case of the create switch
reifyVariableCreateOp(op) == reifyVariableOp(op)

\* the ElementStart, Element and ElementEnd cases
reifyElementOp(op) ==
    CASE op.kind = "ElementStart" -> Replaced(ng("elementStart", <<LiteralNum(op.slot), LiteralStr(op.tag)>>))
      [] op.kind = "Element" -> Replaced(ng("element", <<LiteralNum(op.slot), LiteralStr(op.tag)>>))
      [] op.kind = "ElementEnd" -> Replaced(ng("elementEnd", <<>>))

\* the Template case
reifyTemplateOp(op, childView) ==
    Replaced(ng("template", <<LiteralNum(op.slot), ReadVarExpr(childView.fnName),
                              LiteralNum(childView.decls), LiteralNum(childView.vars),
                              LiteralStr(op.tag)>>))

\* the Listener case, listenerFn the result of reifyListenerHandler
reifyListenerOp(op, listenerFn) ==
    IF ~listenerFn.ok
    THEN Thrown([op EXCEPT !.handlerOps = listenerFn.ops], listenerFn.message)
    ELSE Replaced(ng("listener", <<LiteralStr(op.name), listenerFn.fn>>))

\* the switch of reifyCreateOperations on an operation whose expressions
\* are rewritten
reifyCreateSwitch(job, unit, op) ==
    CASE op.kind = "Text" -> Replaced(ng("text", <<LiteralNum(op.slot), LiteralStr(op.initialValue)>>))
      [] op.kind \in {"ElementStart", "Element", "ElementEnd"} -> reifyElementOp(op)
      [] op.kind = "ContainerStart" -> Replaced(ng("elementContainerStart", <<LiteralNum(op.slot)>>))
      [] op.kind = "Container" -> Replaced(ng("elementContainer", <<LiteralNum(op.slot)>>))
      [] op.kind = "ContainerEnd" -> Replaced(ng("elementContainerEnd", <<>>))
      [] op.kind = "Template" ->
           IF ~unit.isView THEN Thrown(op, "must be compiling a component")
           ELSE reifyTemplateOp(op, TemplateChildView(job, unit, op))
      [] op.kind = "Pipe" -> Replaced(ng("pipe", <<LiteralNum(op.slot), LiteralStr(op.name)>>))
      [] op.kind = "Listener" ->
           reifyListenerOp(op, reifyListenerHandler(unit, op.handlerFnName, op.handlerOps,
                                                    op.consumesDollarEvent))
      [] op.kind = "Variable" -> reifyVariableCreateOp(op)
      [] op.kind = "Statement" -> Replaced(op)
      [] OTHER -> UnsupportedCreateOp(op)

\* one iteration of the loop of reifyCreateOperations
reifyCreateRewritten(job, unit, op, rewritten) ==
    IF ~rewritten.ok THEN Thrown(op, rewritten.message)
    ELSE reifyCreateSwitch(job, unit, rewritten.val)

reifyCreateOp(job, unit, op) ==
    reifyCreateRewritten(job, unit, op, transformExpressionsInOp(op))

(***************************************************************************)
(* The explored inputs.  A list holds operations of a small core pool and  *)
(* at most one operation of a wide pool, which has every kind with every   *)
(* expression of ExprPool and every carrier.                               *)
(***************************************************************************)
Fragments == <<"a", "b", "c", "d", "e", "f">>

\* carriers with k sub-expressions and k + 1 string fragments, k <= MaxK
Carriers ==
    UNION { { [kind |-> "Interpolation", strings |-> SubSeq(Fragments, 1, k + 1), expressions |-> es]
              : es \in [1..k -> {[kind |-> "ReadVariable", name |-> "x"],
                                 [kind |-> "LexicalRead", name |-> "l"]}] }
            : k \in 0..MaxK }

\* what the wide pool binds to a Property: every expression and carrier
BoundExprs == ExprPool \cup Carriers

\* what it binds to the other kinds: the carriers, and expressions that are
\* rewritten, throw or pass
BoundFew ==
    Carriers \cup
    { LiteralStr("v"),
      [kind |-> "ReadVariable", name |-> "x"],
      [kind |-> "LexicalRead", name |-> "l"],
      [kind |-> "PipeBinding", slot |-> 1, varOffset |-> 2,
       args |-> <<[kind |-> "ReadVariable", name |-> "x"], LiteralStr("v")>>],
      [kind |-> "Context"] }

UpdateCore ==
    { [kind |-> "Advance", delta |-> 1],
      [kind |-> "Property", name |-> "title", expression |-> [kind |-> "ReadVariable", name |-> "x"]] }

UnsupportedInUpdate ==
    { [kind |-> "Text", slot |-> 0, initialValue |-> "t"],
      [kind |-> "Namespace", active |-> "svg"] }

UpdateWide ==
    { [kind |-> "Property", name |-> "p", expression |-> e] : e \in BoundExprs }
    \cup { [kind |-> k, name |-> "p", expression |-> e]
             : k \in {"ClassProp", "Attribute", "HostProperty"}, e \in BoundFew }
    \cup { [kind |-> "StyleProp", name |-> "width", expression |-> e, unit |-> "px"] : e \in BoundFew }
    \cup { [kind |-> k, expression |-> e] : k \in {"StyleMap", "ClassMap"}, e \in BoundFew }
    \cup { [kind |-> "InterpolateText", interpolation |-> c] : c \in Carriers }
    \cup { [kind |-> "Variable", xref |-> 9, variable |-> [name |-> n], initializer |-> e]
             : n \in {"v0", NullName},
               e \in {LiteralStr("v"), [kind |-> "NextContext", steps |-> 1], [kind |-> "Context"]} }
    \cup { createStatementOp(ExpressionStatement(e))
             : e \in {LiteralStr("v"), [kind |-> "ReadVariable", name |-> "x"],
                      [kind |-> "LexicalRead", name |-> "l"]} }
    \cup UnsupportedInUpdate
    \cup UpdateCore

\* the operations of handler lists
HandlerPool ==
    { createStatementOp(ExpressionStatement(
          [kind |-> "NotExpr", condition |-> [kind |-> "ReadVariable", name |-> "x"]])),
      [kind |-> "Variable", xref |-> 8, variable |-> [name |-> "h0"],
       initializer |-> [kind |-> "RestoreView", view |-> [kind |-> "ReadVariable", name |-> "view"]]],
      [kind |-> "Variable", xref |-> 8, variable |-> [name |-> NullName], initializer |-> LiteralStr("v")],
      [kind |-> "Property", name |-> "hp",
       expression |-> [kind |-> "Interpolation", strings |-> <<"a", "b">>,
                       expressions |-> <<[kind |-> "ReadVariable", name |-> "x"]>>]],
      [kind |-> "Text", slot |-> 0, initialValue |-> "t"] }

HandlerLists == UNION { [1..n -> HandlerPool] : n \in 0..MaxHandlerLen }

CreateCore ==
    { [kind |-> "ElementStart", slot |-> 0, tag |-> "div"],
      [kind |-> "ElementEnd"] }

UnsupportedInCreate ==
    { [kind |-> "Advance", delta |-> 1],
      [kind |-> "Namespace", active |-> "svg"] }

\* the xrefs of the embedded views of a component job
ChildXrefs == {2, 3}

CreateWide ==
    { [kind |-> "Text", slot |-> 1, initialValue |-> "hi"],
      [kind |-> "Element", slot |-> 2, tag |-> "br"],
      [kind |-> "ContainerStart", slot |-> 3],
      [kind |-> "Container", slot |-> 4],
      [kind |-> "ContainerEnd"],
      [kind |-> "Pipe", slot |-> 5, name |-> "async"] }
    \cup { [kind |-> "Template", slot |-> 6, xref |-> x, tag |-> "ng-template"] : x \in ChildXrefs }
    \cup { [kind |-> "Listener", name |-> "click", handlerFnName |-> "onClick",
            handlerOps |-> h, consumesDollarEvent |-> c] : h \in HandlerLists, c \in BOOLEAN }
    \cup { [kind |-> "Variable", xref |-> 9, variable |-> [name |-> n], initializer |-> e]
             : n \in {"v0", NullName}, e \in {LiteralStr("v"), [kind |-> "GetCurrentView"]} }
    \cup { createStatementOp(ExpressionStatement(e))
             : e \in {[kind |-> "ReadVariable", name |-> "x"], [kind |-> "LexicalRead", name |-> "l"]} }
    \cup UnsupportedInCreate
    \cup CreateCore

\* the lists of at most MaxLen operations with at most one outside Core
FocusLists(Wide, Core) ==
    {<<>>} \cup
    UNION { { [j \in 1..n |-> IF j = p THEN w ELSE f[j]] : w \in Wide, f \in [1..n -> Core] }
            : n \in 1..MaxLen, p \in 1..MaxLen }

\* the function name and the slot counts an earlier phase gave the views
ViewMetadata ==
    { <<[fnName |-> "Root_Template", decls |-> 7, vars |-> 9],
        [fnName |-> "Child_2_Template", decls |-> d, vars |-> v],
        [fnName |-> "Child_3_Template", decls |-> 3, vars |-> 5]>>
      : d \in {2, 4}, v \in {0, 1} }

DefaultCreate == <<[kind |-> "Text", slot |-> 1, initialValue |-> "hi"]>>

DefaultUpdate == <<[kind |-> "Advance", delta |-> 1]>>

Unit(xref, isView, meta, create, update) ==
    [xref |-> xref, isView |-> isView, fnName |-> meta.fnName, decls |-> meta.decls,
     vars |-> meta.vars, create |-> create, update |-> update]

\* a component job of three views; the view `focus` has the lists given
ComponentJob(meta, focus, create, update) ==
    [x \in 1..3 |-> IF x = focus THEN Unit(x, TRUE, meta[x], create, update)
                    ELSE Unit(x, TRUE, meta[x], DefaultCreate, DefaultUpdate)]

\* a host binding job: one unit, which is no ViewCompilationUnit
HostBindingJob(create, update) ==
    <<Unit(1, FALSE, [fnName |-> "Host_Bindings", decls |-> 0, vars |-> 0], create, update)>>

Jobs ==
    LET creates == FocusLists(CreateWide, CreateCore)
        updates == FocusLists(UpdateWide, UpdateCore)
        meta0 == CHOOSE m \in ViewMetadata : m[2].decls = 2 /\ m[2].vars = 1
        lists == { <<c, DefaultUpdate>> : c \in creates } \cup { <<DefaultCreate, w>> : w \in updates }
    IN  { ComponentJob(meta0, 1, l[1], l[2]) : l \in lists }
        \cup { HostBindingJob(l[1], l[2]) : l \in lists }
        \cup { ComponentJob(meta0, 2, l[1], l[2]) : l \in {m \in lists : Len(m[1]) + Len(m[2]) <= 2} }
        \cup { ComponentJob(m, 1, <<c>>, DefaultUpdate)
                 : m \in ViewMetadata, c \in {op \in CreateWide : op.kind = "Template"} }

(***************************************************************************)
(* phaseReify as a state machine: u is the unit of the outer loop, phase   *)
(* the list being reified, i the position of the list's iterator.          *)
(***************************************************************************)
\* ir.OpList.replace(op, newOp) on the operation at position k
OpListReplace(ops, k, newOp) == [ops EXCEPT ![k] = newOp]

\* Faulty variant: the iterator skips the operation after a replaced one.
IteratorNextSkipping(k) == k + 2

\* the step of `for (const op of ops)`
IteratorNext(k) == k + 1

Init ==
    /\ units \in Jobs
    /\ orig = units
    /\ u = 1
    /\ phase = "create"
    /\ i = 1
    /\ status = "running"
    /\ error = ""

\* the operation at the iterator is replaced and the loop goes on
Lowered(list, r) ==
    /\ r.ok
    /\ units' = [units EXCEPT ![u][list] = OpListReplace(@, i, r.op)]
    /\ i' = IteratorNext(i)
    /\ UNCHANGED <<orig, u, phase, status, error>>

\* the Error leaves phaseReify; r.op is the operation as the throwing
\* code left it
Aborted(list, r) ==
    /\ ~r.ok
    /\ units' = [units EXCEPT ![u][list] = OpListReplace(@, i, r.op)]
    /\ error' = r.message
    /\ status' = "error"
    /\ UNCHANGED <<orig, u, phase, i>>

AtOp(list) == status = "running" /\ phase = list /\ i <= Len(units[u][list])

\* reifyCreateOperations: one operation is lowered
ReifyCreateOp ==
    /\ AtOp("create")
    /\ Lowered("create", reifyCreateOp(units, units[u], units[u].create[i]))

\* reifyCreateOperations: lowering an operation throws
ReifyCreateThrow ==
    /\ AtOp("create")
    /\ Aborted("create", reifyCreateOp(units, units[u], units[u].create[i]))

\* reifyCreateOperations returns; reifyUpdateOperations is called
ReifyCreateReturn ==
    /\ status = "running" /\ phase = "create" /\ i > Len(units[u].create)
    /\ phase' = "update"
    /\ i' = 1
    /\ UNCHANGED <<units, orig, u, status, error>>

\* reifyUpdateOperations: one operation is lowered
ReifyUpdateOp ==
    /\ AtOp("update")
    /\ Lowered("update", reifyUpdateOp(units[u].update[i]))

\* reifyUpdateOperations: lowering an operation throws
ReifyUpdateThrow ==
    /\ AtOp("update")
    /\ Aborted("update", reifyUpdateOp(units[u].update[i]))

\* reifyUpdateOperations returns; the loop of phaseReify goes on to the
\* next unit
NextUnit ==
    /\ status = "running" /\ phase = "update" /\ i > Len(units[u].update)
    /\ u < Len(units)
    /\ u' = u + 1
    /\ phase' = "create"
    /\ i' = 1
    /\ UNCHANGED <<units, orig, status, error>>

\* phaseReify returns
PhaseReifyReturn ==
    /\ status = "running" /\ phase = "update" /\ i > Len(units[u].update)
    /\ u = Len(units)
    /\ status' = "done"
    /\ UNCHANGED <<units, orig, u, phase, i, error>>

Next ==
    \/ ReifyCreateOp
    \/ ReifyCreateThrow
    \/ ReifyCreateReturn
    \/ ReifyUpdateOp
    \/ ReifyUpdateThrow
    \/ NextUnit
    \/ PhaseReifyReturn

Spec == Init /\ [][Next]_vars

(***************************************************************************)
(* Vocabulary of the properties.  orig is the job as phaseReify received   *)
(* it; units is the job as it is now.                                      *)
(***************************************************************************)
ListNames == {"create", "update"}

\* the places of the job: unit k, list l, position j
Places ==
    { <<k, l, j>> \in (1..Len(orig)) \X ListNames \X (1..MaxLen + 1) : j <= Len(orig[k][l]) }

OrigAt(pl) == orig[pl[1]][pl[2]][pl[3]]

NowAt(pl) == units[pl[1]][pl[2]][pl[3]]

\* the loop has gone past the place
Passed(pl) ==
    \/ pl[1] < u
    \/ pl[1] = u /\ pl[2] = "create" /\ phase = "update"
    \/ pl[1] = u /\ pl[2] = phase /\ pl[3] < i

\* the loop is at the place
Current(pl) == pl[1] = u /\ pl[2] = phase /\ pl[3] = i

CreateKinds ==
    {"Text", "ElementStart", "Element", "ElementEnd", "ContainerStart", "Container",
     "ContainerEnd", "Template", "Pipe", "Listener", "Variable", "Statement"}

UpdateKinds ==
    {"Advance", "Property", "StyleProp", "ClassProp", "StyleMap", "ClassMap",
     "InterpolateText", "Attribute", "HostProperty", "Variable", "Statement"}

\* the bindings that have an interpolate variant of their instruction
InterpolableKinds == {"Property", "StyleProp", "StyleMap", "ClassMap", "Attribute"}

\* the instruction of each kind, by sections 4.2 and 4.3 of the specification
PlainInstruction ==
    [Text |-> "text", ElementStart |-> "elementStart", Element |-> "element",
     ElementEnd |-> "elementEnd", ContainerStart |-> "elementContainerStart",
     Container |-> "elementContainer", ContainerEnd |-> "elementContainerEnd",
     Template |-> "template", Pipe |-> "pipe", Listener |-> "listener",
     Advance |-> "advance", Property |-> "property", StyleProp |-> "styleProp",
     ClassProp |-> "classProp", StyleMap |-> "styleMap", ClassMap |-> "classMap",
     InterpolateText |-> "textInterpolate", Attribute |-> "attribute",
     HostProperty |-> "hostProperty"]

InterpolateInstruction ==
    [Property |-> "propertyInterpolate", StyleProp |-> "stylePropInterpolate",
     StyleMap |-> "styleMapInterpolate", ClassMap |-> "classMapInterpolate",
     Attribute |-> "attributeInterpolate"]

\* the bound expression of a binding is a carrier
BindsCarrier(op) == "expression" \in DOMAIN op /\ op.expression.kind = "Interpolation"

\* the expression of the instruction call a Statement operation wraps
CallOf(op) == op.statement.expr

IsCall(op) ==
    /\ op.kind = "Statement"
    /\ op.statement.kind = "ExpressionStatement"
    /\ op.statement.expr.kind = "InvokeFunctionExpr"

\* new is what the table of the specification makes of old
LowersFrom(new, old) ==
    /\ new.kind = "Statement"
    /\ CASE old.kind = "Statement" -> new.statement.kind = old.statement.kind
         [] old.kind = "Variable" ->
              /\ new.statement.kind = "DeclareVarStmt"
              /\ new.statement.name = old.variable.name
         [] old.kind \in DOMAIN PlainInstruction ->
              /\ IsCall(new)
              /\ CallOf(new).instruction =
                    IF old.kind \in InterpolableKinds /\ BindsCarrier(old)
                    THEN InterpolateInstruction[old.kind]
                    ELSE PlainInstruction[old.kind]
              /\ "slot" \in DOMAIN old => CallOf(new).args[1] = LiteralNum(old.slot)
              /\ "name" \in DOMAIN old =>
                    \E a \in 1..Len(CallOf(new).args) : CallOf(new).args[a] = LiteralStr(old.name)
         [] OTHER -> FALSE

\* a node of one of the kinds is in the tree: an expression, a statement,
\* an operation with its handler operations
RECURSIVE HasKind(_, _)
HasKind(node, kinds) ==
    \/ node.kind \in kinds
    \/ \E f \in DOMAIN node \cap (ExprFields \cup OpExprFields) : HasKind(node[f], kinds)
    \/ \E f \in DOMAIN node \cap (ExprListFields \cup {"statements", "handlerOps"}) :
          \E j \in 1..Len(node[f]) : HasKind(node[f][j], kinds)

(***************************************************************************)
(* C1  Closure of operations: when phaseReify returns, every operation of  *)
(* the create list and of the update list of every unit is a Statement.    *)
(***************************************************************************)
ClosureOfOperations ==
    status = "done" => \A pl \in Places : NowAt(pl).kind = "Statement"

\* the pass returned on a job with a listener, and with bindings to lower
ClosureOfOperationsWitness ==
    /\ status = "done"
    /\ \E pl \in Places : OrigAt(pl).kind = "Listener" /\ Len(OrigAt(pl).handlerOps) = MaxHandlerLen
    /\ \E pl \in Places : pl[2] = "update" /\ OrigAt(pl).kind # "Statement"

(***************************************************************************)
(* C2  Closure of expressions: when phaseReify returns, no ir expression   *)
(* and no interpolation carrier is left in any statement of any list, nor  *)
(* in a listener function.  The ClassProp case hands a carrier to the      *)
(* classProp instruction as it is, so this fails.                          *)
(***************************************************************************)
ClosureOfExpressions ==
    status = "done" => \A pl \in Places : ~HasKind(NowAt(pl), IrKinds \cup {"Interpolation"})

\* the same with the jobs left out in which a ClassProp binds a carrier
ClosureOfExpressionsButClassProp ==
    status = "done" =>
        \/ \E pl \in Places : OrigAt(pl).kind = "ClassProp" /\ BindsCarrier(OrigAt(pl))
        \/ \A pl \in Places : ~HasKind(NowAt(pl), IrKinds \cup {"Interpolation"})

(***************************************************************************)
(* C3  Order preservation: when phaseReify returns, every list is as long  *)
(* as it was, and the node at each position is the lowering of the         *)
(* operation that was at that position (a Statement stays a Statement      *)
(* with its statement): nothing is skipped, dropped, doubled or moved.     *)
(***************************************************************************)
OrderPreservation ==
    status = "done" =>
        /\ \A k \in 1..Len(orig) : \A l \in ListNames : Len(units[k][l]) = Len(orig[k][l])
        /\ \A pl \in Places : LowersFrom(NowAt(pl), OrigAt(pl))

\* the pass returned on a list of MaxLen operations of different kinds,
\* none a Statement
OrderPreservationWitness ==
    /\ status = "done"
    /\ \E k \in 1..Len(orig) : \E l \in ListNames :
          /\ Len(orig[k][l]) = MaxLen
          /\ orig[k][l][1].kind # orig[k][l][MaxLen].kind
          /\ \A j \in 1..MaxLen : orig[k][l][j].kind # "Statement"

(***************************************************************************)
(* C4  Arity preservation: an update operation of kind Property,           *)
(* StyleProp, StyleMap, ClassMap, Attribute or InterpolateText that binds  *)
(* a carrier of k sub-expressions is lowered to an instruction call that   *)
(* is handed k sub-expressions and k + 1 string fragments.                 *)
(***************************************************************************)
CarrierOf(op) == IF op.kind = "InterpolateText" THEN op.interpolation ELSE op.expression

BindsCarrierWithArity(op) ==
    \/ op.kind = "InterpolateText"
    \/ op.kind \in InterpolableKinds /\ BindsCarrier(op)

ArityPreservation ==
    \A pl \in Places :
        (pl[2] = "update" /\ Passed(pl) /\ BindsCarrierWithArity(OrigAt(pl))) =>
            /\ IsCall(NowAt(pl))
            /\ Len(CallOf(NowAt(pl)).expressions) = Len(CarrierOf(OrigAt(pl)).expressions)
            /\ Len(CallOf(NowAt(pl)).strings) = Len(CarrierOf(OrigAt(pl)).expressions) + 1
            /\ CallOf(NowAt(pl)).strings = CarrierOf(OrigAt(pl)).strings

\* a carrier of MaxK sub-expressions has been lowered
ArityPreservationWitness ==
    \E pl \in Places :
        /\ pl[2] = "update" /\ Passed(pl) /\ BindsCarrierWithArity(OrigAt(pl))
        /\ OrigAt(pl).kind = "StyleProp"
        /\ Len(CarrierOf(OrigAt(pl)).expressions) = MaxK

(***************************************************************************)
(* C5  Listener function shape: a lowered Listener hands the listener      *)
(* instruction a function with no parameter when consumesDollarEvent is    *)
(* false and with the one parameter $event when it is true, whatever the   *)
(* handler holds; its body is the handler list's statements in order and   *)
(* its name is handlerFnName.                                              *)
(***************************************************************************)
ListenerFn(op) == CallOf(op).args[2]

ListenerFunctionShape ==
    \A pl \in Places :
        (pl[2] = "create" /\ Passed(pl) /\ OrigAt(pl).kind = "Listener") =>
            /\ IsCall(NowAt(pl))
            /\ CallOf(NowAt(pl)).instruction = "listener"
            /\ CallOf(NowAt(pl)).args[1] = LiteralStr(OrigAt(pl).name)
            /\ ListenerFn(NowAt(pl)).kind = "FunctionExpr"
            /\ ListenerFn(NowAt(pl)).params =
                  IF OrigAt(pl).consumesDollarEvent THEN <<"$event">> ELSE <<>>
            /\ ListenerFn(NowAt(pl)).name = OrigAt(pl).handlerFnName
            /\ Len(ListenerFn(NowAt(pl)).statements) = Len(OrigAt(pl).handlerOps)
            /\ \A m \in 1..Len(OrigAt(pl).handlerOps) :
                  LowersFrom(createStatementOp(ListenerFn(NowAt(pl)).statements[m]),
                             OrigAt(pl).handlerOps[m])

\* a listener that consumes $event, with a handler of MaxHandlerLen
\* operations of different kinds, has been lowered
ListenerFunctionShapeWitness ==
    \E pl \in Places :
        /\ pl[2] = "create" /\ Passed(pl) /\ OrigAt(pl).kind = "Listener"
        /\ OrigAt(pl).consumesDollarEvent
        /\ Len(OrigAt(pl).handlerOps) = MaxHandlerLen
        /\ OrigAt(pl).handlerOps[1].kind # OrigAt(pl).handlerOps[MaxHandlerLen].kind

(***************************************************************************)
(* C6  Nested-template wiring: a lowered Template of view reference x is   *)
(* a template instruction with the function name, the declaration count    *)
(* and the variable count of the unit whose xref is x, not those of the    *)
(* enclosing unit; and the pass changes no unit's xref, fnName, decls or   *)
(* vars.                                                                   *)
(***************************************************************************)
NestedTemplateWiring ==
    /\ \A k \in 1..Len(orig) :
          /\ units[k].xref = orig[k].xref
          /\ units[k].fnName = orig[k].fnName
          /\ units[k].decls = orig[k].decls
          /\ units[k].vars = orig[k].vars
    /\ Len(units) = Len(orig)
    /\ \A pl \in Places :
          (pl[2] = "create" /\ Passed(pl) /\ OrigAt(pl).kind = "Template") =>
              /\ IsCall(NowAt(pl))
              /\ CallOf(NowAt(pl)).instruction = "template"
              /\ \E v \in 1..Len(orig) :
                    /\ orig[v].xref = OrigAt(pl).xref
                    /\ CallOf(NowAt(pl)).args =
                          <<LiteralNum(OrigAt(pl).slot), ReadVarExpr(orig[v].fnName),
                            LiteralNum(orig[v].decls), LiteralNum(orig[v].vars),
                            LiteralStr(OrigAt(pl).tag)>>
                    /\ orig[v].fnName # orig[pl[1]].fnName =>
                          CallOf(NowAt(pl)).args[2] # ReadVarExpr(orig[pl[1]].fnName)
                    /\ orig[v].decls # orig[pl[1]].decls =>
                          CallOf(NowAt(pl)).args[3] # LiteralNum(orig[pl[1]].decls)
                    /\ orig[v].vars # orig[pl[1]].vars =>
                          CallOf(NowAt(pl)).args[4] # LiteralNum(orig[pl[1]].vars)

\* a template of the root view that refers to view 2 has been lowered, the
\* counts of view 2 being 4 and 0
NestedTemplateWiringWitness ==
    \E pl \in Places :
        /\ pl[1] = 1 /\ pl[2] = "create" /\ Passed(pl) /\ OrigAt(pl).kind = "Template"
        /\ OrigAt(pl).xref = 2
        /\ orig[2].decls = 4 /\ orig[2].vars = 0

(***************************************************************************)
(* C7  Fatal on unknown: a job with an operation kind outside the create   *)
(* kinds in a create list, or outside the update kinds in an update list   *)
(* or in a handler list, or with an ir expression of a kind that           *)
(* reifyIrExpression has no case for, never makes phaseReify return: the   *)
(* pass ends in an Error.                                                  *)
(***************************************************************************)
HasUnknown(job) ==
    \E k \in 1..Len(job) :
        \/ \E j \in 1..Len(job[k].create) :
              \/ job[k].create[j].kind \notin CreateKinds
              \/ /\ job[k].create[j].kind = "Listener"
                 /\ \E m \in 1..Len(job[k].create[j].handlerOps) :
                       job[k].create[j].handlerOps[m].kind \notin UpdateKinds
              \/ HasKind(job[k].create[j], OtherIrKinds)
        \/ \E j \in 1..Len(job[k].update) :
              \/ job[k].update[j].kind \notin UpdateKinds
              \/ HasKind(job[k].update[j], OtherIrKinds)

\* a running pass is inside its loops, where it lowers the operation at
\* the iterator or leaves the list: it goes on until it returns or throws
InLoops ==
    status = "running" =>
        /\ u \in 1..Len(units)
        /\ phase \in ListNames
        /\ i \in 1..Len(units[u][phase]) + 1

FatalOnUnknown ==
    HasUnknown(orig) =>
        /\ status \in {"running", "error"}
        /\ InLoops

\* the pass ended in an Error on an ir expression of an unknown kind that
\* sits inside another expression
FatalOnUnknownWitness ==
    /\ status = "error"
    /\ error = "Unsupported reification of ir.Expression kind"
    /\ \E pl \in Places : Current(pl) /\ OrigAt(pl).kind = "Property"
          /\ OrigAt(pl).expression.kind \notin OtherIrKinds

(***************************************************************************)
(* C8  Interpolated host property is fatal: a HostProperty that binds a    *)
(* carrier is never replaced, and a job that has one in an update list     *)
(* makes the pass run into an Error and never return; a HostProperty that  *)
(* binds another expression is replaced by one hostProperty instruction of *)
(* the name and the rewritten expression.                                  *)
(***************************************************************************)
HostPropertyPlaces == { pl \in Places : pl[2] = "update" /\ OrigAt(pl).kind = "HostProperty" }

HostPropertyLowering ==
    \A pl \in HostPropertyPlaces :
        IF BindsCarrier(OrigAt(pl))
        THEN /\ NowAt(pl).kind = "HostProperty"
             /\ BindsCarrier(NowAt(pl))
             /\ ~Passed(pl)
             /\ status # "done"
        ELSE Passed(pl) =>
             /\ IsCall(NowAt(pl))
             /\ CallOf(NowAt(pl)).instruction = "hostProperty"
             /\ CallOf(NowAt(pl)).args =
                   <<LiteralStr(OrigAt(pl).name),
                     transformExpressionsInExpression(OrigAt(pl).expression).val>>

InterpolatedHostPropertyFatal ==
    /\ HostPropertyLowering
    /\ (\E pl \in HostPropertyPlaces : BindsCarrier(OrigAt(pl))) =>
          (status \in {"running", "error"} /\ InLoops)

\* the pass ended on the interpolated host property, after lowering the
\* operation before it
InterpolatedHostPropertyFatalWitness ==
    /\ status = "error"
    /\ error = "not yet handled"
    /\ i > 1
    /\ \E pl \in Places : Current(pl) /\ OrigAt(pl).kind = "HostProperty" /\ BindsCarrier(OrigAt(pl))

(***************************************************************************)
(* C9  Abort on the first fatal condition: when lowering an operation      *)
(* throws, the pass is over: the operation keeps its kind, every operation *)
(* after it in the list, the later list of the unit and the later units    *)
(* are as they were, the operations before it stay lowered, and phaseReify *)
(* does not return.                                                        *)
(***************************************************************************)
AbortedInPlace ==
    status = "error" =>
        /\ \A pl \in Places :
              /\ Current(pl) => NowAt(pl).kind = OrigAt(pl).kind
              /\ Passed(pl) => NowAt(pl).kind = "Statement"
              /\ (~Passed(pl) /\ ~Current(pl)) => NowAt(pl) = OrigAt(pl)
        /\ \E pl \in Places : Current(pl)

\* no step of the pass starts in a state in which an Error has been thrown
AbortOnFirstFatal ==
    /\ []AbortedInPlace
    /\ [][status # "error"]_vars

\* the pass threw in the create list of the first of three units, after
\* it lowered an operation of the list
AbortOnFirstFatalWitness ==
    /\ status = "error"
    /\ Len(orig) = 3 /\ u = 1 /\ phase = "create" /\ i = MaxLen
    /\ orig[1].create[1].kind # "Statement"
    /\ orig[1].update # <<>>

(***************************************************************************)
(* C10  Interpolation-shape dispatch: rewriting the expressions leaves a   *)
(* carrier a carrier, so a Property, StyleProp, StyleMap, ClassMap or      *)
(* Attribute is lowered to the interpolate variant of its instruction if   *)
(* and only if it binds a carrier, and to the plain variant otherwise.     *)
(***************************************************************************)
InterpolationShapeDispatch ==
    \A pl \in Places :
        (pl[2] = "update" /\ Passed(pl) /\ OrigAt(pl).kind \in InterpolableKinds) =>
            /\ IsCall(NowAt(pl))
            /\ (CallOf(NowAt(pl)).instruction = InterpolateInstruction[OrigAt(pl).kind])
                  <=> BindsCarrier(OrigAt(pl))
            /\ (CallOf(NowAt(pl)).instruction = PlainInstruction[OrigAt(pl).kind])
                  <=> ~BindsCarrier(OrigAt(pl))
            /\ ~BindsCarrier(OrigAt(pl)) =>
                  /\ "strings" \notin DOMAIN CallOf(NowAt(pl))
                  /\ \A a \in 1..Len(CallOf(NowAt(pl)).args) :
                        CallOf(NowAt(pl)).args[a].kind # "Interpolation"
            /\ BindsCarrier(OrigAt(pl)) =>
                  /\ CallOf(NowAt(pl)).strings = OrigAt(pl).expression.strings
                  /\ \A a \in 1..Len(CallOf(NowAt(pl)).expressions) :
                        ~isIrExpression(CallOf(NowAt(pl)).expressions[a])

\* a Property that binds a carrier whose sub-expressions are ir expressions
\* has been lowered
InterpolationShapeDispatchWitness ==
    \E pl \in Places :
        /\ pl[2] = "update" /\ Passed(pl) /\ OrigAt(pl).kind = "Property"
        /\ BindsCarrier(OrigAt(pl))
        /\ Len(OrigAt(pl).expression.expressions) = MaxK
        /\ isIrExpression(OrigAt(pl).expression.expressions[1])

====
